---- MODULE Spec2Model ----
(***************************************************************************)
(* Model of streamlit_app.py, the Citi Bike analytics dashboard script.    *)
(*                                                                         *)
(* One run of the script is one render.  The script is sequential: it      *)
(* reads the sidebar widgets, stops on an invalid date range, asks the     *)
(* warehouse for the distinct categorical values, builds where_sql, and    *)
(* then sends one query per view, top to bottom.  The position in the      *)
(* script is pc; every call of query_bq is a step of its own because the   *)
(* backend can raise there, and the script has no try/except around it.    *)
(* The st.cache_data caches start empty: every query of the run reaches    *)
(* the backend.                                                            *)
(*                                                                         *)
(* Text is a sequence of strings: the literal pieces of an f-string are    *)
(* one element each, an interpolated categorical value contributes one     *)
(* element per character.                                                  *)
(***************************************************************************)
EXTENDS Integers, Sequences, FiniteSets, TLC

VARIABLES
    pc,             \* position in the script
    start_date,     \* st.sidebar.date_input("Start date"), days since 2024-01-01
    end_date,       \* st.sidebar.date_input("End date")
    days_selected,  \* line 68
    grain,          \* line 70
    rider_types,    \* option universe of the rider multiselect (sorted list)
    bike_types,     \* option universe of the bike multiselect (sorted list)
    rider_filter,   \* selected rider types, in selection order
    bike_filter,    \* selected bike types, in selection order
    where_clauses,  \* line 101-109
    where_sql,      \* line 111
    prev_where_sql, \* where_sql of the previous run of the script
    renders,        \* number of script runs so far
    calls,          \* queries handed to client.query, in order
    views,          \* what each view of the page shows
    failed,         \* name of the query the backend failed on, or "none"
    exc,            \* the exception that ended the script, or "none"
    ins,            \* the row of sql_insights
    t,              \* the row of sql_trend
    bullets,        \* the insight bullets
    inRange,        \* the table holds trips inside the date range
    filteredOut,    \* the membership clauses exclude every trip of the range
    nullRepr,       \* how the DataFrame shows a NULL of a numeric column
    p_pc,           \* position of the pct_change harness
    p_curr,         \* argument curr of pct_change
    p_prev,         \* argument prev of pct_change
    p_out           \* result of pct_change

vars == <<pc, start_date, end_date, days_selected, grain, rider_types, bike_types,
          rider_filter, bike_filter, where_clauses, where_sql, prev_where_sql,
          renders, calls, views, failed, exc, ins, t, bullets, inRange,
          filteredOut, nullRepr, p_pc, p_curr, p_prev, p_out>>

renderVars == <<pc, start_date, end_date, days_selected, grain, rider_types,
                bike_types, rider_filter, bike_filter, where_clauses, where_sql,
                prev_where_sql, renders, calls, views, failed, exc, ins, t,
                bullets, inRange, filteredOut, nullRepr>>

pctVars == <<p_pc, p_curr, p_prev, p_out>>

(***************************************************************************)
(* Bounds of the model.                                                    *)
(***************************************************************************)
MaxDay == 60        \* latest selectable day, counted from 2024-01-01
MaxUniverse == 2    \* most distinct values of a column, builder on its own
MaxOptions == 1     \* most distinct values of a column, whole script
MaxTrips == 2       \* largest trip count the backend reports
MaxRenders == 2     \* script runs on the same filter state
MaxNum == 3         \* largest magnitude given to pct_change besides 100, 150

(***************************************************************************)
(* Program constants.                                                      *)
(***************************************************************************)
TrendDays == 60     \* the trend bullet needs at least this many days
SecPerMin == 60     \* seconds to minutes

(***************************************************************************)
(* Python values.  A scalar of a DataFrame row is None, NaN (pandas'       *)
(* missing marker of a numeric column) or a number n/d in lowest terms.    *)
(* Raised stands for an exception raised while evaluating an expression.   *)
(***************************************************************************)
None == <<"None">>
NaN == <<"NaN">>
Raised == <<"raise">>

Abs(n) == IF n < 0 THEN -n ELSE n

RECURSIVE Gcd(_, _)
Gcd(a, b) == IF b = 0 THEN a ELSE Gcd(b, a % b)

\* The number n/d, d # 0, in lowest terms with a positive denominator.
Frac(n, d) ==
    LET g == Gcd(Abs(n), Abs(d))
        s == IF d < 0 THEN -1 ELSE 1
    IN  <<"num", (s * n) \div g, (s * d) \div g>>

Num(n) == <<"num", n, 1>>

IsNum(v) == v[1] = "num"

\* float(x): TypeError on None, NaN stays NaN.
FloatOf(v) == IF v = None THEN Raised ELSE v

\* int(x): TypeError on None, ValueError on NaN, truncation toward zero.
IntOf(v) ==
    IF ~IsNum(v) THEN Raised
    ELSE IF v[2] >= 0 THEN Num(v[2] \div v[3]) ELSE Num(-((-v[2]) \div v[3]))

\* Float arithmetic; NaN is contagious.
Sub(a, b) == IF a = NaN \/ b = NaN THEN NaN ELSE Frac(a[2] * b[3] - b[2] * a[3], a[3] * b[3])
Div(a, b) == IF a = NaN \/ b = NaN THEN NaN ELSE Frac(a[2] * b[3], a[3] * b[2])
Mul(a, b) == IF a = NaN \/ b = NaN THEN NaN ELSE Frac(a[2] * b[2], a[3] * b[3])

\* prev == 0 on floats: False for NaN.
IsZero(v) == IsNum(v) /\ v[2] = 0

(***************************************************************************)
(* pct_change, lines 31-39.                                                *)
(***************************************************************************)
\* pct_change with a zero prev answered by 0 instead of None.
pct_change_nozero(curr, prev) ==
    IF FloatOf(curr) = Raised \/ FloatOf(prev) = Raised THEN None
    ELSE IF IsZero(FloatOf(prev)) THEN Num(0)
    ELSE Div(Sub(FloatOf(curr), FloatOf(prev)), FloatOf(prev))

pct_change(curr, prev) ==
    IF FloatOf(curr) = Raised \/ FloatOf(prev) = Raised THEN None
    ELSE IF IsZero(FloatOf(prev)) THEN None
    ELSE Div(Sub(FloatOf(curr), FloatOf(prev)), FloatOf(prev))

(***************************************************************************)
(* Dates.  A date is its number of days since 2024-01-01; str(date) is the *)
(* ISO form the f-strings interpolate.                                     *)
(***************************************************************************)
MonthLen == <<31, 29, 31, 30, 31, 30, 31, 31, 30, 31, 30, 31>>

RECURSIVE MonthDay(_, _)
MonthDay(d, m) == IF d < MonthLen[m] THEN <<m, d + 1>> ELSE MonthDay(d - MonthLen[m], m + 1)

MonthOf(d) == MonthDay(d, 1)[1]

Digit == <<"0", "1", "2", "3", "4", "5", "6", "7", "8", "9">>
TwoDigits(n) == Digit[(n \div 10) + 1] \o Digit[(n % 10) + 1]

IsoDate(d) == "2024-" \o TwoDigits(MonthDay(d, 1)[1]) \o "-" \o TwoDigits(MonthDay(d, 1)[2])

StartDays == {0, MaxDay}
EndDays == {MaxDay - 1, MaxDay}

(***************************************************************************)
(* Categorical values are strings, modelled as sequences of characters.    *)
(***************************************************************************)
CharCode(c) == IF c = "'" THEN 39 ELSE IF c = "c" THEN 99 ELSE 109

\* The values a categorical column can hold: two plain ones and one with a
\* quote character in it.
StringValues == {<<"m">>, <<"c">>, <<"m", "'", "c">>}

\* Python's order on str: by code point, a proper prefix first.
RECURSIVE StrLess(_, _)
StrLess(a, b) ==
    IF a = <<>> THEN b # <<>>
    ELSE IF b = <<>> THEN FALSE
    ELSE IF Head(a) = Head(b) THEN StrLess(Tail(a), Tail(b))
    ELSE CharCode(Head(a)) < CharCode(Head(b))

\* sorted(values), lines 82-83.
RECURSIVE sorted(_)
sorted(S) ==
    IF S = {} THEN <<>>
    ELSE LET m == CHOOSE x \in S : \A y \in S \ {x} : StrLess(x, y)
         IN  <<m>> \o sorted(S \ {m})

Range(s) == {s[i] : i \in 1 .. Len(s)}

\* What st.multiselect can return: distinct options, in the order selected.
Selections(options) ==
    {s \in UNION {[1 .. n -> Range(options)] : n \in 0 .. Len(options)} :
        \A i, j \in 1 .. Len(s) : i # j => s[i] # s[j]}

Universes == {sorted(S) : S \in {X \in SUBSET StringValues : Cardinality(X) <= MaxUniverse}}

(***************************************************************************)
(* where_sql, lines 100-111.                                               *)
(***************************************************************************)
RECURSIVE Join(_, _)
Join(parts, sep) ==
    IF parts = <<>> THEN <<>>
    ELSE IF Len(parts) = 1 THEN parts[1]
    ELSE parts[1] \o sep \o Join(Tail(parts), sep)

\* f"'{x}'"
Quoted(x) == <<"'">> \o x \o <<"'">>

\* line 101
DateClause(sd, ed) ==
    <<"ride_date BETWEEN DATE('", IsoDate(sd), "') AND DATE('", IsoDate(ed), "')">>

\* lines 104-105 and 108-109
InClause(column, selected) ==
    <<column \o " IN (">>
        \o Join([i \in 1 .. Len(selected) |-> Quoted(selected[i])], <<",", " ">>)
        \o <<")">>

\* where_clauses with the date clause left out once a membership clause is there.
BuildClauses_nodate(sd, ed, riders, bikes) ==
    (IF riders # <<>> \/ bikes # <<>> THEN <<>> ELSE <<DateClause(sd, ed)>>)
        \o (IF riders # <<>> THEN <<InClause("member_casual", riders)>> ELSE <<>>)
        \o (IF bikes # <<>> THEN <<InClause("rideable_type", bikes)>> ELSE <<>>)

BuildClauses(sd, ed, riders, bikes) ==
    <<DateClause(sd, ed)>>
        \o (IF riders # <<>> THEN <<InClause("member_casual", riders)>> ELSE <<>>)
        \o (IF bikes # <<>> THEN <<InClause("rideable_type", bikes)>> ELSE <<>>)

\* line 111
JoinClauses(clauses) == Join(clauses, <<" AND ">>)

NoText == <<"unset">>

(***************************************************************************)
(* The query catalog.  A query is its logical name, the predicates its     *)
(* WHERE clauses interpolate (one per FROM of the template) and the rest   *)
(* of what tells it from the other templates.                              *)
(***************************************************************************)
Query(name, wheres, extra) == [name |-> name, wheres |-> wheres, extra |-> extra]

\* lines 75-80
sql_distinct == Query("distinct", <<>>, <<>>)
\* lines 116-130
sql_kpis == Query("kpis", <<where_sql, where_sql>>, <<>>)
\* lines 145-162
sql_mom == Query("mom", <<DateClause(start_date, end_date)>>, <<>>)
\* lines 189-197
sql_cat == Query("cat", <<where_sql>>, <<>>)
\* lines 212-231
sql_ts == Query("ts", <<where_sql>>, <<grain>>)
\* lines 252-261
sql_mix == Query("mix", <<where_sql>>, <<>>)
\* lines 282-294
sql_weekday == Query("weekday", <<where_sql>>, <<>>)
\* lines 313-323
sql_top_stations == Query("top", <<where_sql>>, <<"start_station_name IS NOT NULL">>)
\* lines 340-380
sql_insights == Query("insights", <<where_sql, where_sql, where_sql>>, <<>>)
\* lines 408-418
sql_trend == Query("trend", <<DateClause(start_date, end_date)>>, <<>>)

ViewNames == {"kpi", "mom", "cat", "ts", "mix", "weekday", "top", "insights"}

(***************************************************************************)
(* The backend.  It is a collaborator: what it answers is an input.  The   *)
(* answers agree with the SQL of the template: an aggregate over no rows   *)
(* is one row of NULLs, a GROUP BY over no rows is no row, a scalar        *)
(* subquery over no rows is NULL.                                          *)
(***************************************************************************)
\* The DataFrame's value for a NULL of a numeric column.
NullNum == IF nullRepr = "NaN" THEN NaN ELSE None

HasMembership == rider_filter # <<>> \/ bike_filter # <<>>

\* No trip satisfies where_sql.
Empty == ~inRange \/ (HasMembership /\ filteredOut)

TwoMonths == MonthOf(start_date) < MonthOf(end_date)

Counts == {Num(n) : n \in 1 .. MaxTrips}

\* The row of sql_kpis.
KpiRows ==
    IF Empty
    THEN {[trips |-> Num(0), avg_duration_sec |-> NullNum, member_share |-> NullNum,
           electric_share |-> NullNum, top_bike |-> None]}
    ELSE {[trips |-> Num(n), avg_duration_sec |-> a, member_share |-> Frac(m, n),
           electric_share |-> Frac(n - m, n), top_bike |-> <<"struct">>] :
              n \in 1 .. MaxTrips, m \in {0, 1}, a \in {NullNum, Num(900)}}

\* The row of sql_mom: the last month with trips and the one before it.
MomRows ==
    IF ~inRange
    THEN {[curr_trips |-> NullNum, prev_trips |-> NullNum]}
    ELSE {[curr_trips |-> c, prev_trips |-> p] :
              c \in Counts, p \in {NullNum} \cup (IF TwoMonths THEN Counts ELSE {})}

\* The bike types the top group of bike_mix can have; NULL is a group too
\* unless an IN clause on rideable_type excludes it.
TopTypes == IF bike_filter # <<>> THEN Range(bike_filter) ELSE Range(bike_types) \cup {None}

\* The rows of sql_insights: none when top_bike is empty (the cross join).
InsightRows ==
    IF Empty THEN {}
    ELSE {[trips |-> Num(n), avg_dur |-> a, member_share |-> Frac(1, n),
           weekend_share |-> Frac(n - 1, n), top_bike_type |-> b,
           top_bike_trips |-> Num(n)] :
              n \in 1 .. MaxTrips, a \in {NullNum, Num(900)}, b \in TopTypes}

\* The row of sql_trend: the first and the last month with trips.
TrendRows ==
    IF ~inRange
    THEN {[first_trips |-> NullNum, last_trips |-> NullNum]}
    ELSE UNION {{[first_trips |-> f, last_trips |-> l] :
                     l \in IF TwoMonths THEN Counts ELSE {f}} : f \in Counts}

(***************************************************************************)
(* The script, top to bottom.                                              *)
(***************************************************************************)
NoRow == [trips |-> None, avg_dur |-> None, member_share |-> None,
          weekend_share |-> None, top_bike_type |-> None, top_bike_trips |-> None]

NoTrend == [first_trips |-> <<"unset">>, last_trips |-> <<"unset">>]

dateVars == <<start_date, end_date>>
optionVars == <<rider_types, bike_types>>
filterVars == <<rider_filter, bike_filter>>
whereVars == <<where_clauses, where_sql>>
runVars == <<prev_where_sql, renders>>
tableVars == <<inRange, nullRepr>>
insightVars == <<ins, t, bullets>>

InitRender ==
    /\ pc = "check"
    /\ days_selected = 0
    /\ grain = "unset"
    /\ rider_types = <<>>
    /\ bike_types = <<>>
    /\ rider_filter = <<>>
    /\ bike_filter = <<>>
    /\ where_clauses = <<>>
    /\ where_sql = NoText
    /\ prev_where_sql = NoText
    /\ renders = 1
    /\ calls = <<>>
    /\ views = [v \in ViewNames |-> "pending"]
    /\ failed = "none"
    /\ exc = "none"
    /\ ins = NoRow
    /\ t = NoTrend
    /\ bullets = <<>>
    /\ filteredOut = FALSE

InitPct ==
    /\ p_pc = "idle"
    /\ p_curr = None
    /\ p_prev = None
    /\ p_out = None

Init ==
    /\ InitRender
    /\ InitPct
    /\ start_date \in StartDays
    /\ end_date \in EndDays
    /\ inRange \in BOOLEAN
    /\ nullRepr \in {"None", "NaN"}

\* The range check switched off.
InvalidRange_off(sd, ed) == FALSE

\* line 64

InvalidRange(sd, ed) == sd > ed

\* lines 64-70: st.stop() on an invalid range, else the range length and
\* the grain radio (any of the two options, whatever the default index).
CheckRange ==
    /\ pc = "check"
    /\ IF InvalidRange(start_date, end_date)
       THEN /\ pc' = "stopped"
            /\ UNCHANGED <<days_selected, grain>>
       ELSE /\ pc' = "distinct"
            /\ days_selected' = end_date - start_date
            /\ grain' \in {"Daily", "Monthly"}
    /\ UNCHANGED <<dateVars, optionVars, filterVars, whereVars, runVars, calls, views,
                   failed, exc, insightVars, tableVars, filteredOut, pctVars>>

\* query_bq raising, lines 15-17: nothing catches it, the script ends.
BackendRaises(q) ==
    /\ calls' = Append(calls, q)
    /\ pc' = "crashed"
    /\ exc' = "BackendQueryError"
    /\ failed' = q.name

\* An exception raised by the script's own code after the query returned.
ScriptRaises(q, e) ==
    /\ calls' = Append(calls, q)
    /\ pc' = "crashed"
    /\ exc' = e
    /\ failed' = failed

\* The query returned and the view was drawn; the script goes on.
Shown(q, view, how, next) ==
    /\ calls' = Append(calls, q)
    /\ views' = [views EXCEPT ![view] = how]
    /\ pc' = next
    /\ UNCHANGED <<failed, exc>>

\* lines 73-86: the option universes, sorted.
GetDistinctValues ==
    /\ pc = "distinct"
    /\ \/ /\ BackendRaises(sql_distinct)
          /\ UNCHANGED <<optionVars, views>>
       \/ /\ \E R \in SUBSET StringValues, B \in SUBSET StringValues :
                /\ Cardinality(R) <= MaxOptions
                /\ Cardinality(B) <= MaxOptions
                /\ rider_types' = sorted(R)
                /\ bike_types' = sorted(B)
          /\ calls' = Append(calls, sql_distinct)
          /\ pc' = "filters"
          /\ UNCHANGED <<failed, exc, views>>
    /\ UNCHANGED <<dateVars, days_selected, grain, filterVars, whereVars, runVars,
                   insightVars, tableVars, filteredOut, pctVars>>

\* lines 88-98: the two multiselects.
SelectFilters ==
    /\ pc = "filters"
    /\ rider_filter' \in Selections(rider_types)
    /\ bike_filter' \in Selections(bike_types)
    /\ filteredOut' \in IF inRange /\ (rider_filter' # <<>> \/ bike_filter' # <<>>)
                        THEN BOOLEAN ELSE {FALSE}
    /\ pc' = "build"
    /\ UNCHANGED <<dateVars, days_selected, grain, optionVars, whereVars, runVars, calls,
                   views, failed, exc, insightVars, tableVars, pctVars>>

\* lines 100-111
BuildWhere ==
    /\ pc = "build"
    /\ where_clauses' = BuildClauses(start_date, end_date, rider_filter, bike_filter)
    /\ where_sql' = JoinClauses(where_clauses')
    /\ pc' = "kpi"
    /\ UNCHANGED <<dateVars, days_selected, grain, optionVars, filterVars, runVars, calls,
                   views, failed, exc, insightVars, tableVars, filteredOut, pctVars>>

\* lines 116-140: the KPI row.  fmt_int and fmt_seconds_to_min catch what
\* they raise; float(kpi['member_share']) and float(kpi['electric_share'])
\* do not.
KpiRow ==
    /\ pc = "kpi"
    /\ \/ /\ BackendRaises(sql_kpis)
          /\ UNCHANGED views
       \/ \E kpi \in KpiRows :
             IF FloatOf(kpi.member_share) = Raised \/ FloatOf(kpi.electric_share) = Raised
             THEN ScriptRaises(sql_kpis, "TypeError") /\ UNCHANGED views
             ELSE Shown(sql_kpis, "kpi", "rendered", "mom")
    /\ UNCHANGED <<dateVars, days_selected, grain, optionVars, filterVars, whereVars,
                   runVars, insightVars, tableVars, filteredOut, pctVars>>

\* lines 145-177: month over month.  The row is always there; prev_trips is
\* tested with "is None"; the delta goes through int().
MomKpi ==
    /\ pc = "mom"
    /\ \/ /\ BackendRaises(sql_mom)
          /\ UNCHANGED views
       \/ \E row \in MomRows :
             IF row.prev_trips = None
             THEN Shown(sql_mom, "mom", "rendered", "cat")
             ELSE IF IntOf(Sub(row.curr_trips, row.prev_trips)) = Raised
             THEN ScriptRaises(sql_mom, "ValueError") /\ UNCHANGED views
             ELSE Shown(sql_mom, "mom", "rendered", "cat")
    /\ UNCHANGED <<dateVars, days_selected, grain, optionVars, filterVars, whereVars,
                   runVars, insightVars, tableVars, filteredOut, pctVars>>

\* A view that is one grouped query and an "if df.empty" around its chart.
GroupedView(q, view, next) ==
    /\ \/ /\ BackendRaises(q)
          /\ UNCHANGED views
       \/ /\ Empty
          /\ Shown(q, view, "nodata", next)
       \/ /\ ~Empty
          /\ Shown(q, view, "rendered", next)
    /\ UNCHANGED <<dateVars, days_selected, grain, optionVars, filterVars, whereVars,
                   runVars, insightVars, tableVars, filteredOut, pctVars>>

\* lines 187-205
RiderChart == pc = "cat" /\ GroupedView(sql_cat, "cat", "ts")

\* lines 208-242
TimeSeries == pc = "ts" /\ GroupedView(sql_ts, "ts", "mix")

\* lines 249-273
BikeMix == pc = "mix" /\ GroupedView(sql_mix, "mix", "weekday")

\* lines 280-304
WeekdaySplit == pc = "weekday" /\ GroupedView(sql_weekday, "weekday", "top")

\* lines 311-331: also empty when every matching trip has no start station.
TopStations ==
    /\ pc = "top"
    /\ \/ /\ BackendRaises(sql_top_stations)
          /\ UNCHANGED views
       \/ Shown(sql_top_stations, "top", "nodata", "insights")
       \/ /\ ~Empty
          /\ Shown(sql_top_stations, "top", "rendered", "insights")
    /\ UNCHANGED <<dateVars, days_selected, grain, optionVars, filterVars, whereVars,
                   runVars, insightVars, tableVars, filteredOut, pctVars>>

(***************************************************************************)
(* Insights, lines 338-427.                                                *)
(***************************************************************************)
Bullet(kind, a, b) == [kind |-> kind, a |-> a, b |-> b]

\* The trend gate with a strict comparison.
TrendEnabled_gt(days) == days > TrendDays

\* line 407

TrendEnabled(days) == days >= TrendDays

\* line 424
Direction(delta) ==
    IF delta > 0 THEN "increased" ELSE IF delta < 0 THEN "decreased" ELSE "stayed flat"

\* lines 383-404: the derived metrics and the bullets they gate.
InsightBullets(row) ==
    LET trips == IntOf(row.trips)
        avg_dur_min ==
            IF row.avg_dur # None THEN Div(FloatOf(row.avg_dur), Num(SecPerMin)) ELSE None
        member_share ==
            IF row.member_share # None THEN Mul(FloatOf(row.member_share), Num(100)) ELSE None
        weekend_share ==
            IF row.weekend_share # None THEN Mul(FloatOf(row.weekend_share), Num(100)) ELSE None
        top_bike_type == row.top_bike_type
        top_bike_trips ==
            IF row.top_bike_trips # None THEN IntOf(row.top_bike_trips) ELSE None
    IN  <<Bullet("total", trips, None)>>
            \o (IF avg_dur_min # None THEN <<Bullet("avg", avg_dur_min, None)>> ELSE <<>>)
            \o (IF member_share # None
                THEN <<Bullet("mix", member_share, Sub(Num(100), member_share))>> ELSE <<>>)
            \o (IF weekend_share # None
                THEN <<Bullet("weekend", weekend_share, None)>> ELSE <<>>)
            \o (IF top_bike_type # None /\ top_bike_trips # None
                THEN <<Bullet("bike", top_bike_type, top_bike_trips)>> ELSE <<>>)

\* lines 421-425
TrendBullet(row) ==
    LET first_trips == IntOf(row.first_trips)
        last_trips == IntOf(row.last_trips)
        delta == last_trips[2] - first_trips[2]
    IN  Bullet("trend", <<Direction(delta)>>, Num(delta))

\* lines 340-404, and line 427 when the range is too short for the trend.
\* .iloc[0] raises IndexError on a frame without rows.
Insights ==
    /\ pc = "insights"
    /\ \/ /\ BackendRaises(sql_insights)
          /\ UNCHANGED <<views, ins, bullets>>
       \/ /\ InsightRows = {}
          /\ ScriptRaises(sql_insights, "IndexError")
          /\ UNCHANGED <<views, ins, bullets>>
       \/ \E row \in InsightRows :
             /\ ins' = row
             /\ bullets' = InsightBullets(row)
             /\ IF TrendEnabled(days_selected)
                THEN /\ calls' = Append(calls, sql_insights)
                     /\ pc' = "trend"
                     /\ UNCHANGED <<views, failed, exc>>
                ELSE Shown(sql_insights, "insights", "rendered", "done")
    /\ UNCHANGED <<dateVars, days_selected, grain, optionVars, filterVars, whereVars,
                   runVars, t, tableVars, filteredOut, pctVars>>

\* lines 407-427
Trend ==
    /\ pc = "trend"
    /\ \/ /\ BackendRaises(sql_trend)
          /\ UNCHANGED <<views, t, bullets>>
       \/ \E row \in TrendRows :
             /\ t' = row
             /\ IF row.first_trips # None /\ row.last_trips # None
                THEN IF IntOf(row.first_trips) = Raised \/ IntOf(row.last_trips) = Raised
                     THEN /\ ScriptRaises(sql_trend, "ValueError")
                          /\ UNCHANGED <<views, bullets>>
                     ELSE /\ bullets' = Append(bullets, TrendBullet(row))
                          /\ Shown(sql_trend, "insights", "rendered", "done")
                ELSE /\ bullets' = bullets
                     /\ Shown(sql_trend, "insights", "rendered", "done")
    /\ UNCHANGED <<dateVars, days_selected, grain, optionVars, filterVars, whereVars,
                   runVars, ins, tableVars, filteredOut, pctVars>>

Next ==
    \/ CheckRange
    \/ GetDistinctValues
    \/ SelectFilters
    \/ BuildWhere
    \/ KpiRow
    \/ MomKpi
    \/ RiderChart
    \/ TimeSeries
    \/ BikeMix
    \/ WeekdaySplit
    \/ TopStations
    \/ Insights
    \/ Trend

Spec == Init /\ [][Next]_vars

(***************************************************************************)
(* The predicate builder on its own: the script at line 100, for every     *)
(* valid filter state, and run again on the same widget state (Streamlit   *)
(* reruns the script on every interaction; the option universes come from  *)
(* st.cache_data).                                                         *)
(***************************************************************************)
InitBuild ==
    /\ InitPct
    /\ pc = "build"
    /\ start_date \in StartDays
    /\ end_date \in EndDays
    /\ ~InvalidRange(start_date, end_date)
    /\ days_selected = end_date - start_date
    /\ grain \in {"Daily", "Monthly"}
    /\ rider_types \in Universes
    /\ bike_types \in Universes
    /\ rider_filter \in Selections(rider_types)
    /\ bike_filter \in Selections(bike_types)
    /\ where_clauses = <<>>
    /\ where_sql = NoText
    /\ prev_where_sql = NoText
    /\ renders = 1
    /\ calls = <<sql_distinct>>
    /\ views = [v \in ViewNames |-> "pending"]
    /\ failed = "none"
    /\ exc = "none"
    /\ ins = NoRow
    /\ t = NoTrend
    /\ bullets = <<>>
    /\ inRange = TRUE
    /\ filteredOut = FALSE
    /\ nullRepr = "NaN"

\* The script run again with the widgets left as they are.
Rerun ==
    /\ pc = "kpi"
    /\ renders < MaxRenders
    /\ renders' = renders + 1
    /\ prev_where_sql' = where_sql
    /\ where_clauses' = <<>>
    /\ where_sql' = NoText
    /\ pc' = "build"
    /\ UNCHANGED <<dateVars, days_selected, grain, optionVars, filterVars, calls, views,
                   failed, exc, insightVars, tableVars, filteredOut, pctVars>>

NextBuild == BuildWhere \/ Rerun

SpecBuild == InitBuild /\ [][NextBuild]_vars

(***************************************************************************)
(* pct_change on its own, for every pair of arguments.                     *)
(***************************************************************************)
PctInputs == {None, NaN} \cup {Num(n) : n \in (-MaxNum .. MaxNum) \cup {100, 150}}

InitPctChange ==
    /\ InitRender
    /\ start_date = 0
    /\ end_date = 0
    /\ inRange = FALSE
    /\ nullRepr = "None"
    /\ p_pc = "call"
    /\ p_curr \in PctInputs
    /\ p_prev \in PctInputs
    /\ p_out = None

ApplyPctChange ==
    /\ p_pc = "call"
    /\ p_out' = pct_change(p_curr, p_prev)
    /\ p_pc' = "returned"
    /\ UNCHANGED <<p_curr, p_prev, renderVars>>

SpecPct == InitPctChange /\ [][ApplyPctChange]_vars

(***************************************************************************)
(* Reading a predicate text back, for the properties of where_sql.         *)
(***************************************************************************)
DateHead == "ride_date BETWEEN DATE('"
RiderHead == "member_casual IN ("
BikeHead == "rideable_type IN ("

Positions(text, tok) == {i \in 1 .. Len(text) : text[i] = tok}

\* The clauses of where_clauses that open with head.
ClausesOf(head) == {i \in 1 .. Len(where_clauses) : where_clauses[i][1] = head}

\* The items of an IN clause as the script wrote them: the text between
\* the parentheses, cut at every ", ", each item without its first and last
\* character.
RECURSIVE CutItems(_, _)
CutItems(body, item) ==
    IF body = <<>> THEN <<item>>
    ELSE IF Len(body) >= 2 /\ body[1] = "," /\ body[2] = " "
         THEN <<item>> \o CutItems(SubSeq(body, 3, Len(body)), <<>>)
         ELSE CutItems(Tail(body), Append(item, Head(body)))

Listed(clause) ==
    LET items == CutItems(SubSeq(clause, 2, Len(clause) - 1), <<>>)
    IN  [i \in 1 .. Len(items) |-> SubSeq(items[i], 2, Len(items[i]) - 1)]

\* The same text read as SQL reads it: a string literal runs from a quote
\* to the next quote, literals are separated by commas, white space is
\* skipped, the list ends at the closing parenthesis.
RECURSIVE SkipSpaces(_, _)
SkipSpaces(text, i) ==
    IF i <= Len(text) /\ text[i] = " " THEN SkipSpaces(text, i + 1) ELSE i

RECURSIVE LiteralEnd(_, _)
LiteralEnd(text, i) ==
    IF i > Len(text) THEN 0 ELSE IF text[i] = "'" THEN i ELSE LiteralEnd(text, i + 1)

Bad == [ok |-> FALSE, values |-> <<>>, next |-> 0]

\* Reads literals from position i on; returns them with the position after
\* the closing parenthesis.
RECURSIVE LexList(_, _, _)
LexList(text, i, acc) ==
    LET a == SkipSpaces(text, i)
    IN  IF a > Len(text) \/ text[a] # "'" THEN Bad
        ELSE LET e == LiteralEnd(text, a + 1)
             IN  IF e = 0 THEN Bad
                 ELSE LET lit == SubSeq(text, a + 1, e - 1)
                          b == SkipSpaces(text, e + 1)
                      IN  IF b > Len(text) THEN Bad
                          ELSE IF text[b] = ")"
                               THEN [ok |-> TRUE, values |-> Append(acc, lit), next |-> b + 1]
                          ELSE IF text[b] = ","
                               THEN LexList(text, b + 1, Append(acc, lit))
                          ELSE Bad

\* Reads " AND <column> IN (...)" clauses from position i to the end.
RECURSIVE LexClauses(_, _, _)
LexClauses(text, i, acc) ==
    IF i > Len(text) THEN [ok |-> TRUE, clauses |-> acc]
    ELSE IF i + 1 > Len(text) \/ text[i] # " AND " \/ text[i + 1] \notin {RiderHead, BikeHead}
         THEN [ok |-> FALSE, clauses |-> <<>>]
    ELSE LET l == LexList(text, i + 2, <<>>)
         IN  IF ~l.ok THEN [ok |-> FALSE, clauses |-> <<>>]
             ELSE LexClauses(text, l.next, Append(acc, [column |-> text[i + 1], values |-> l.values]))

\* The predicate as SQL reads it: the date-range clause, then the rest.
Lexed(text) ==
    IF Len(text) < 5 \/ text[1] # DateHead \/ text[3] # "') AND DATE('" \/ text[5] # "')"
    THEN [ok |-> FALSE, clauses |-> <<>>]
    ELSE LexClauses(text, 6, <<>>)

\* What the selections ask for.
Wanted ==
    (IF rider_filter # <<>> THEN <<[column |-> RiderHead, values |-> rider_filter]>> ELSE <<>>)
        \o (IF bike_filter # <<>> THEN <<[column |-> BikeHead, values |-> bike_filter]>> ELSE <<>>)

Built == where_sql # NoText

(***************************************************************************)
(* C1: for each categorical field, the predicate has no membership clause  *)
(* when the selection is empty or is the whole universe of options, and    *)
(* otherwise exactly one membership clause that lists exactly the selected *)
(* values.                                                                 *)
(***************************************************************************)
FieldClaim(head, selected, options) ==
    IF selected = <<>> \/ Range(selected) = Range(options)
    THEN ClausesOf(head) = {}
    ELSE /\ Cardinality(ClausesOf(head)) = 1
         /\ \A i \in ClausesOf(head) : Listed(where_clauses[i]) = selected

C1_NoClauseWhenAllOrNone ==
    Built => /\ FieldClaim(RiderHead, rider_filter, rider_types)
             /\ FieldClaim(BikeHead, bike_filter, bike_types)

(***************************************************************************)
(* C2: no selected value, even one with a quote character in it, changes   *)
(* the structure of the predicate: read as SQL, the text is the date-range *)
(* clause and at most one membership clause per field, and every selected  *)
(* value is one complete string literal of its clause.                     *)
(***************************************************************************)
C2_ValuesAreLiterals ==
    Built => /\ Lexed(where_sql).ok
             /\ Lexed(where_sql).clauses = Wanted

CatalogNames == {"kpis", "mom", "cat", "ts", "mix", "weekday", "top", "insights", "trend"}

Sent(name) == \E i \in 1 .. Len(calls) : calls[i].name = name

Ended == pc \in {"done", "crashed"}

AllViewsDrawn == \A v \in ViewNames : views[v] \in {"rendered", "nodata"}

\* A metric the backend computed: neither None nor NaN.
Defined(v) == v # None /\ v # NaN

Kinds == [i \in 1 .. Len(bullets) |-> bullets[i].kind]

Has(kind) == \E i \in 1 .. Len(bullets) : bullets[i].kind = kind

BulletOrder == <<"total", "avg", "mix", "weekend", "bike", "trend">>

Rank(kind) == CHOOSE i \in 1 .. Len(BulletOrder) : BulletOrder[i] = kind

(***************************************************************************)
(* C3: within one render every catalog query that is sent filters on the   *)
(* one predicate built from the filter state, so a rider-type or bike-type *)
(* restriction of one view is a restriction of all of them.                *)
(***************************************************************************)
C3_SamePredicateEverywhere ==
    \A i \in 1 .. Len(calls) :
        calls[i].name \in CatalogNames =>
            \A j \in 1 .. Len(calls[i].wheres) : calls[i].wheres[j] = where_sql

(***************************************************************************)
(* C4: when the backend fails on the query of one view, no exception       *)
(* escapes the render and, once the render has ended, every view has been  *)
(* drawn (the failed one as "no data"): the failure does not cancel the    *)
(* views after it.                                                         *)
(***************************************************************************)
C4_FailureStaysInItsView ==
    failed \in CatalogNames =>
        /\ exc = "none"
        /\ pc # "crashed"
        /\ (Ended => AllViewsDrawn)

(***************************************************************************)
(* C5: when the predicate of a valid filter state matches no trip and the  *)
(* backend answers every query, the render does not crash and ends with    *)
(* every view drawn or showing "no data".                                  *)
(***************************************************************************)
C5_EmptyResultNeverCrashes ==
    (Empty /\ failed = "none") =>
        /\ exc = "none"
        /\ pc # "crashed"
        /\ (Ended => AllViewsDrawn)

(***************************************************************************)
(* C6: with start_date after end_date the render stops before the          *)
(* predicate is built and before any query, the distinct-values query      *)
(* included, is sent; no backend call ever follows.                        *)
(***************************************************************************)
C6_InvalidRangeStopsFirst ==
    start_date > end_date =>
        /\ calls = <<>>
        /\ where_clauses = <<>>
        /\ where_sql = NoText
        /\ pc \in {"check", "stopped"}

C6_Witness ==
    /\ start_date > end_date
    /\ pc = "stopped"
    /\ calls = <<>>

(***************************************************************************)
(* C8: the bullets are an order-preserving subsequence of total trips,     *)
(* average duration, rider mix, weekend timing, top bike type, trend; the  *)
(* total-trips bullet is always there and first; each of the four metric   *)
(* bullets is there exactly when its metric(s) are defined.                *)
(***************************************************************************)
C8_BulletsFollowTheirMetrics ==
    bullets # <<>> =>
        /\ \A i, j \in 1 .. Len(bullets) : i < j => Rank(Kinds[i]) < Rank(Kinds[j])
        /\ Kinds[1] = "total"
        /\ Has("avg") <=> Defined(ins.avg_dur)
        /\ Has("mix") <=> Defined(ins.member_share)
        /\ Has("weekend") <=> Defined(ins.weekend_share)
        /\ Has("bike") <=> (Defined(ins.top_bike_type) /\ Defined(ins.top_bike_trips))

(***************************************************************************)
(* C9: the trend query is sent and the trend bullet emitted only for a     *)
(* range of at least 60 days; a render that ends on a range of 60 days or  *)
(* more has sent it, and with both month counts defined the last bullet is *)
(* the trend bullet, "increased" for last > first, "decreased" for         *)
(* last < first, "stayed flat" for last = first.                           *)
(***************************************************************************)
C9_TrendOnlyFromSixtyDays ==
    LET days == end_date - start_date
        last == bullets[Len(bullets)]
    IN  /\ days < 60 => ~Sent("trend") /\ ~Has("trend") /\ t = NoTrend
        /\ (pc = "done" /\ days >= 60) =>
              /\ Sent("trend")
              /\ t # NoTrend
              /\ (Defined(t.first_trips) /\ Defined(t.last_trips)) =>
                    /\ last.kind = "trend"
                    /\ Cardinality({i \in 1 .. Len(bullets) : Kinds[i] = "trend"}) = 1
                    /\ last.b = Num(t.last_trips[2] - t.first_trips[2])
                    /\ t.last_trips[2] > t.first_trips[2] => last.a = <<"increased">>
                    /\ t.last_trips[2] < t.first_trips[2] => last.a = <<"decreased">>
                    /\ t.last_trips[2] = t.first_trips[2] => last.a = <<"stayed flat">>

C9_Witness ==
    /\ pc = "done"
    /\ end_date - start_date = 60
    /\ t.first_trips = Num(2)
    /\ t.last_trips = Num(1)
    /\ bullets[Len(bullets)].kind = "trend"
    /\ bullets[Len(bullets)].a = <<"decreased">>

====
